---- MODULE Spec2Model ----
(***************************************************************************)
(* utils::RingBuffer<T, Blocks, BlockSize> of                              *)
(* src/coroutines/Classical_producer_consumer.cpp: a ring of Blocks slots  *)
(* guarded by one mutex and two counting semaphores, written by producer   *)
(* threads and read by consumer threads.                                   *)
(*                                                                         *)
(* Every call is split at the points where another thread can run: the     *)
(* semaphore acquire, the mutex lock, the critical section (which ends     *)
(* with the lock_guard's unlock) and the semaphore release.                *)
(***************************************************************************)
EXTENDS Integers, Sequences, FiniteSets, TLC

\* ------------------------------------------------------------------ bounds
Blocks == 2        \* template parameter Blocks: number of slots
BlockSize == 2     \* template parameter BlockSize: elements per slot
MaxCalls == 4      \* calls made in one run of Spec
MaxCallsSPSC == 6  \* calls made in one run of SpecSPSC
MaxCallsData == 3  \* calls made in one run of SpecData
MaxCallsBlocks == 5  \* calls made in one run of SpecBlocks

Producers == {"p1", "p2"}
Consumers == {"c1", "c2"}
Threads == Producers \cup Consumers
NoThread == "none"
NoRet == "none"

\* A value-initialised element: test::A::m_count = 0
T0 == 0
\* The first elements of the producer's two inputs, {1, 2, ..} and {11, 12, ..}
FirstA == 1
FirstB == 11
\* The element values in play
Values == FirstA..(FirstA + BlockSize) \cup FirstB..(FirstB + BlockSize)

Min(a, b) == IF a < b THEN a ELSE b

\* struct block { size_; data_ }
block(size, data) == [size_ |-> size, data_ |-> data]

\* The slots of a value-initialised buffer
EmptyBlock == block(0, [i \in 1..BlockSize |-> T0])

\* Input data: n consecutive values starting at v, so that every position of
\* a block or collection holds a different value
Ramp(v, n) == [i \in 1..n |-> v + i - 1]

\* Blocks a caller can hand to write(block_type&&), with a size_ of sizes:
\* size_ is a public field that nothing validates, so it may exceed BlockSize
BlockInputs(sizes) ==
    { block(n, Ramp(FirstB, BlockSize)) : n \in sizes }

\* Collections a caller can hand to write(Collection&&), of the lengths lens
CollectionInputs(lens) ==
    { Ramp(FirstA, n) : n \in lens }

\* Every size_ and every length: less than, equal to and above BlockSize
AllSizes == 0..(BlockSize + 1)

\* The caller's raw buffer of read_bytes is BlockSize + 1 elements long
BufLen == BlockSize + 1
EmptyBuf == [i \in 1..BufLen |-> T0]

BlockReads == {"read", "read_for"}
CollectionReads == {"read_coll", "read_coll_for"}
ByteReads == {"read_bytes", "read_bytes_for"}
TimedReads == {"read_for", "read_coll_for", "read_bytes_for"}
ReadOps == BlockReads \cup CollectionReads \cup ByteReads

VARIABLES
    blocks_,         \* std::array<block_type, Blocks>, slots 0..Blocks-1
    writeIndex_,
    readIndex_,
    writeSemaphore_, \* count of the write-admission semaphore
    readSemaphore_,  \* count of the read-availability semaphore
    lock_,           \* the thread holding the mutex, or NoThread
    pc,              \* where each thread is in its call
    op,              \* the operation each thread is in, or last made
    arg,             \* producers: the block or collection being written
    written,         \* producers: the local `written` of write(Collection&&)
    out,             \* consumers: the caller's block_type&
    collection,      \* consumers: the caller's Collection&
    buf,             \* consumers: the caller's T* buffer
    size,            \* consumers: the caller's std::size_t& size
    ret,             \* the value the last call of each thread returned
    budget,          \* calls that may still be started
    \* history variables: they record what happened and guide nothing
    tag,             \* per slot: serial number of the write stored last (0: none)
    origin,          \* per slot: the argument of the write stored last
    unread,          \* per slot: written and not yet read
    wcount,          \* number of writes stored
    rlog,            \* serial numbers returned by successful reads, in order
    got              \* per consumer: tag and origin of the slot its last successful read saw

shared == <<blocks_, writeIndex_, readIndex_, writeSemaphore_, readSemaphore_, lock_>>
locals == <<pc, op, arg, written, out, collection, buf, size, ret, budget>>
history == <<tag, origin, unread, wcount, rlog, got>>
vars == <<shared, locals, history>>

Slots == 0..(Blocks - 1)

InitShared ==
    /\ blocks_ = [i \in Slots |-> EmptyBlock]
    /\ writeIndex_ = 0
    /\ readIndex_ = 0
    /\ writeSemaphore_ = Blocks
    /\ readSemaphore_ = 0
    /\ lock_ = NoThread

InitLocals ==
    /\ pc = [t \in Threads |-> "idle"]
    /\ op = [t \in Threads |-> NoRet]
    /\ arg = [t \in Producers |-> NoRet]
    /\ written = [t \in Producers |-> 0]
    /\ out = [t \in Consumers |-> EmptyBlock]
    /\ collection = [t \in Consumers |-> <<>>]
    /\ buf = [t \in Consumers |-> EmptyBuf]
    /\ size = [t \in Consumers |-> 0]
    /\ ret = [t \in Threads |-> NoRet]

InitHistory ==
    /\ tag = [i \in Slots |-> 0]
    /\ origin = [i \in Slots |-> NoRet]
    /\ unread = [i \in Slots |-> FALSE]
    /\ wcount = 0
    /\ rlog = <<>>
    /\ got = [t \in Consumers |-> [tag |-> 0, origin |-> NoRet]]

Init == InitShared /\ InitLocals /\ InitHistory /\ budget = MaxCalls


\* ------------------------------------------------------------ pure helpers
\* writeIndex_ = (writeIndex_ + 1) % Blocks, readIndex_ = (readIndex_ + 1) % Blocks
NextIndex(i) == (i + 1) % Blocks

\* WrittenCount without the std::min: the collection's length as it is
WrittenCountNoMin(c) == Len(c)

\* const auto written = std::min(BlockSize, collection.size())
WrittenCount(c) == Min(BlockSize, Len(c))

\* blocks_[writeIndex_] = std::forward<block_type>(data)
StoreBlock(slot, b) == b

\* block.size_ = written; std::copy(cbegin, next(cbegin, written), data_.begin()):
\* the elements past `written` keep what the slot held
StoreCollection(slot, c, n) ==
    block(n, [i \in 1..BlockSize |-> IF i <= n THEN c[i] ELSE slot.data_[i]])

\* block = blocks_[readIndex_]
CopyOut(slot) == slot

\* reserve(block.size_); std::copy(data_.cbegin(), data_.cend(), back_inserter)
AppendBlock(coll, slot) == coll \o [i \in 1..BlockSize |-> slot.data_[i]]

\* size = std::min(size, block.size_)
BytesCount(n, slot) == Min(n, slot.size_)

\* std::memcpy(ptr, block.data_.data(), size); an element read past the end of
\* data_ is whatever lies there: junk
CopyBytes(b, slot, n, junk) ==
    [i \in 1..BufLen |->
        IF i <= n THEN (IF i <= BlockSize THEN slot.data_[i] ELSE junk) ELSE b[i]]

\* if (readIndex_ == writeIndex_) return false
IsEmptyRecheck == readIndex_ = writeIndex_

\* ---------------------------------------------------------------- producers
\* write(block_type&& data): entry
CallWriteBlock(t, b) ==
    /\ pc[t] = "idle" /\ budget > 0
    /\ budget' = budget - 1
    /\ pc' = [pc EXCEPT ![t] = "w_acquire"]
    /\ op' = [op EXCEPT ![t] = "write_block"]
    /\ arg' = [arg EXCEPT ![t] = b]
    /\ ret' = [ret EXCEPT ![t] = NoRet]
    /\ UNCHANGED <<shared, history, written, out, collection, buf, size>>

\* write(Collection&& collection): entry, `written` is computed before the wait
CallWriteCollection(t, c) ==
    /\ pc[t] = "idle" /\ budget > 0
    /\ budget' = budget - 1
    /\ pc' = [pc EXCEPT ![t] = "w_acquire"]
    /\ op' = [op EXCEPT ![t] = "write_coll"]
    /\ arg' = [arg EXCEPT ![t] = c]
    /\ written' = [written EXCEPT ![t] = WrittenCount(c)]
    /\ ret' = [ret EXCEPT ![t] = NoRet]
    /\ UNCHANGED <<shared, history, out, collection, buf, size>>

\* WriteAcquire that does not wait: the write goes on with no permit
WriteAcquireNoWait(t) ==
    /\ pc[t] = "w_acquire"
    /\ pc' = [pc EXCEPT ![t] = "w_lock"]
    /\ UNCHANGED <<blocks_, writeIndex_, readIndex_, writeSemaphore_, readSemaphore_, lock_>>
    /\ UNCHANGED <<op, arg, written, out, collection, buf, size, ret, budget, history>>

\* writeSemaphore_.acquire(): blocks while the count is 0
WriteAcquire(t) ==
    /\ pc[t] = "w_acquire"
    /\ writeSemaphore_ > 0
    /\ writeSemaphore_' = writeSemaphore_ - 1
    /\ pc' = [pc EXCEPT ![t] = "w_lock"]
    /\ UNCHANGED <<blocks_, writeIndex_, readIndex_, readSemaphore_, lock_>>
    /\ UNCHANGED <<op, arg, written, out, collection, buf, size, ret, budget, history>>

\* std::lock_guard lock{lock_}
WriteLock(t) ==
    /\ pc[t] = "w_lock"
    /\ lock_ = NoThread
    /\ lock_' = t
    /\ pc' = [pc EXCEPT ![t] = "w_cs"]
    /\ UNCHANGED <<blocks_, writeIndex_, readIndex_, writeSemaphore_, readSemaphore_>>
    /\ UNCHANGED <<op, arg, written, out, collection, buf, size, ret, budget, history>>

\* The slot value a write leaves at the write cursor
Stored(t) ==
    IF op[t] = "write_block"
    THEN StoreBlock(blocks_[writeIndex_], arg[t])
    ELSE StoreCollection(blocks_[writeIndex_], arg[t], written[t])

\* WriteStore with the mutex still held on the way to readSemaphore_.release()
WriteStoreKeepsLock(t) ==
    /\ pc[t] = "w_cs"
    /\ lock_ = t
    /\ blocks_' = [blocks_ EXCEPT ![writeIndex_] = Stored(t)]
    /\ writeIndex_' = NextIndex(writeIndex_)
    /\ pc' = [pc EXCEPT ![t] = "w_release"]
    /\ wcount' = wcount + 1
    /\ tag' = [tag EXCEPT ![writeIndex_] = wcount + 1]
    /\ origin' = [origin EXCEPT ![writeIndex_] = [kind |-> op[t], src |-> arg[t]]]
    /\ unread' = [unread EXCEPT ![writeIndex_] = TRUE]
    /\ UNCHANGED <<readIndex_, writeSemaphore_, readSemaphore_, lock_, rlog, got>>
    /\ UNCHANGED <<op, arg, written, out, collection, buf, size, ret, budget>>

\* The critical section of either write overload, up to the unlock
WriteStore(t) ==
    /\ pc[t] = "w_cs"
    /\ lock_ = t
    /\ blocks_' = [blocks_ EXCEPT ![writeIndex_] = Stored(t)]
    /\ writeIndex_' = NextIndex(writeIndex_)
    /\ lock_' = NoThread
    /\ pc' = [pc EXCEPT ![t] = "w_release"]
    /\ wcount' = wcount + 1
    /\ tag' = [tag EXCEPT ![writeIndex_] = wcount + 1]
    /\ origin' = [origin EXCEPT ![writeIndex_] = [kind |-> op[t], src |-> arg[t]]]
    /\ unread' = [unread EXCEPT ![writeIndex_] = TRUE]
    /\ UNCHANGED <<readIndex_, writeSemaphore_, readSemaphore_, rlog, got>>
    /\ UNCHANGED <<op, arg, written, out, collection, buf, size, ret, budget>>

\* readSemaphore_.release(), and the return
WriteRelease(t) ==
    /\ pc[t] = "w_release"
    /\ readSemaphore_' = readSemaphore_ + 1
    /\ pc' = [pc EXCEPT ![t] = "idle"]
    /\ ret' = [ret EXCEPT ![t] = IF op[t] = "write_coll" THEN written[t] ELSE "void"]
    /\ UNCHANGED <<blocks_, writeIndex_, readIndex_, writeSemaphore_, lock_>>
    /\ UNCHANGED <<op, arg, written, out, collection, buf, size, budget, history>>

\* ---------------------------------------------------------------- consumers
\* Entry of read, read_for, read(Collection&), read_for(Collection&, ..),
\* read_bytes(ptr, size) and read_bytes_for(ptr, size, ..); n is the caller's size
CallRead(t, o, n) ==
    /\ pc[t] = "idle" /\ budget > 0
    /\ budget' = budget - 1
    /\ pc' = [pc EXCEPT ![t] = "r_acquire"]
    /\ op' = [op EXCEPT ![t] = o]
    /\ size' = [size EXCEPT ![t] = IF o \in ByteReads THEN n ELSE size[t]]
    /\ ret' = [ret EXCEPT ![t] = NoRet]
    /\ UNCHANGED <<shared, history, arg, written, out, collection, buf>>

\* ReadAcquire that takes no unit of the count
ReadAcquireNoTake(t) ==
    /\ pc[t] = "r_acquire"
    /\ readSemaphore_ > 0
    /\ pc' = [pc EXCEPT ![t] = "r_lock"]
    /\ UNCHANGED <<blocks_, writeIndex_, readIndex_, writeSemaphore_, readSemaphore_, lock_>>
    /\ UNCHANGED <<op, arg, written, out, collection, buf, size, ret, budget, history>>

\* readSemaphore_.acquire(), or try_acquire_for(..) returning true
ReadAcquire(t) ==
    /\ pc[t] = "r_acquire"
    /\ readSemaphore_ > 0
    /\ readSemaphore_' = readSemaphore_ - 1
    /\ pc' = [pc EXCEPT ![t] = "r_lock"]
    /\ UNCHANGED <<blocks_, writeIndex_, readIndex_, writeSemaphore_, lock_>>
    /\ UNCHANGED <<op, arg, written, out, collection, buf, size, ret, budget, history>>

\* ReadTimeout with the result of try_acquire_for ignored, as the
\* non-bool branch of readImpl does: the call goes on to the mutex
ReadTimeoutIgnored(t) ==
    /\ pc[t] = "r_acquire"
    /\ op[t] \in TimedReads
    /\ readSemaphore_ = 0
    /\ pc' = [pc EXCEPT ![t] = "r_lock"]
    /\ UNCHANGED <<shared, history>>
    /\ UNCHANGED <<op, arg, written, out, collection, buf, size, ret, budget>>

\* try_acquire_for(timeout) returning false: the count stayed 0 for the
\* whole wait, and the call returns false
ReadTimeout(t) ==
    /\ pc[t] = "r_acquire"
    /\ op[t] \in TimedReads
    /\ readSemaphore_ = 0
    /\ pc' = [pc EXCEPT ![t] = "idle"]
    /\ ret' = [ret EXCEPT ![t] = FALSE]
    /\ UNCHANGED <<shared, history>>
    /\ UNCHANGED <<op, arg, written, out, collection, buf, size, budget>>

\* std::lock_guard lock{lock_}
ReadLock(t) ==
    /\ pc[t] = "r_lock"
    /\ lock_ = NoThread
    /\ lock_' = t
    /\ pc' = [pc EXCEPT ![t] = "r_cs"]
    /\ UNCHANGED <<blocks_, writeIndex_, readIndex_, writeSemaphore_, readSemaphore_>>
    /\ UNCHANGED <<op, arg, written, out, collection, buf, size, ret, budget, history>>

\* ReadEmpty giving the permit back: readSemaphore_.release() before the
\* return false
ReadEmptyRestores(t) ==
    /\ pc[t] = "r_cs"
    /\ lock_ = t
    /\ IsEmptyRecheck
    /\ lock_' = NoThread
    /\ readSemaphore_' = readSemaphore_ + 1
    /\ pc' = [pc EXCEPT ![t] = "idle"]
    /\ ret' = [ret EXCEPT ![t] = FALSE]
    /\ UNCHANGED <<blocks_, writeIndex_, readIndex_, writeSemaphore_>>
    /\ UNCHANGED <<op, arg, written, out, collection, buf, size, budget, history>>

\* The recheck under the mutex found the cursors equal: return false
ReadEmpty(t) ==
    /\ pc[t] = "r_cs"
    /\ lock_ = t
    /\ IsEmptyRecheck
    /\ lock_' = NoThread
    /\ pc' = [pc EXCEPT ![t] = "idle"]
    /\ ret' = [ret EXCEPT ![t] = FALSE]
    /\ UNCHANGED <<blocks_, writeIndex_, readIndex_, writeSemaphore_, readSemaphore_>>
    /\ UNCHANGED <<op, arg, written, out, collection, buf, size, budget, history>>

\* What a successful read records
ReadHistory(t) ==
    /\ rlog' = Append(rlog, tag[readIndex_])
    /\ got' = [got EXCEPT ![t] = [tag |-> tag[readIndex_], origin |-> origin[readIndex_]]]
    /\ unread' = [unread EXCEPT ![readIndex_] = FALSE]
    /\ UNCHANGED <<tag, origin, wcount>>

\* ReadBlockCopy that moves the slot out: block = std::move(blocks_[readIndex_])
\* leaving a value-initialised slot behind
ReadBlockCopyMovesOut(t) ==
    /\ pc[t] = "r_cs"
    /\ lock_ = t
    /\ op[t] \in BlockReads
    /\ ~IsEmptyRecheck
    /\ out' = [out EXCEPT ![t] = CopyOut(blocks_[readIndex_])]
    /\ blocks_' = [blocks_ EXCEPT ![readIndex_] = EmptyBlock]
    /\ readIndex_' = NextIndex(readIndex_)
    /\ lock_' = NoThread
    /\ pc' = [pc EXCEPT ![t] = "r_release"]
    /\ ReadHistory(t)
    /\ UNCHANGED <<writeIndex_, writeSemaphore_, readSemaphore_>>
    /\ UNCHANGED <<op, arg, written, collection, buf, size, ret, budget>>

\* readImpl(Func, block_type&, Args...): copy the slot out, advance the cursor
ReadBlockCopy(t) ==
    /\ pc[t] = "r_cs"
    /\ lock_ = t
    /\ op[t] \in BlockReads
    /\ ~IsEmptyRecheck
    /\ out' = [out EXCEPT ![t] = CopyOut(blocks_[readIndex_])]
    /\ readIndex_' = NextIndex(readIndex_)
    /\ lock_' = NoThread
    /\ pc' = [pc EXCEPT ![t] = "r_release"]
    /\ ReadHistory(t)
    /\ UNCHANGED <<blocks_, writeIndex_, writeSemaphore_, readSemaphore_>>
    /\ UNCHANGED <<op, arg, written, collection, buf, size, ret, budget>>

\* readImpl(Func) with the lambda of read(Collection&) / read_for(Collection&, ..)
ReadCollectionCopy(t) ==
    /\ pc[t] = "r_cs"
    /\ lock_ = t
    /\ op[t] \in CollectionReads
    /\ ~IsEmptyRecheck
    /\ collection' = [collection EXCEPT ![t] = AppendBlock(collection[t], blocks_[readIndex_])]
    /\ lock_' = NoThread
    /\ pc' = [pc EXCEPT ![t] = "r_release"]
    /\ ReadHistory(t)
    /\ UNCHANGED <<blocks_, writeIndex_, readIndex_, writeSemaphore_, readSemaphore_>>
    /\ UNCHANGED <<op, arg, written, out, buf, size, ret, budget>>

\* readImpl(Func) with the lambda of read_bytes / read_bytes_for
ReadBytesCopy(t) ==
    /\ pc[t] = "r_cs"
    /\ lock_ = t
    /\ op[t] \in ByteReads
    /\ ~IsEmptyRecheck
    /\ LET n == BytesCount(size[t], blocks_[readIndex_])
       IN /\ size' = [size EXCEPT ![t] = n]
          /\ \E junk \in (IF n > BlockSize THEN Values \cup {T0} ELSE {T0}) :
                buf' = [buf EXCEPT ![t] = CopyBytes(buf[t], blocks_[readIndex_], n, junk)]
    /\ lock_' = NoThread
    /\ pc' = [pc EXCEPT ![t] = "r_release"]
    /\ ReadHistory(t)
    /\ UNCHANGED <<blocks_, writeIndex_, readIndex_, writeSemaphore_, readSemaphore_>>
    /\ UNCHANGED <<op, arg, written, out, collection, ret, budget>>

\* writeSemaphore_.release(); return true
ReadRelease(t) ==
    /\ pc[t] = "r_release"
    /\ writeSemaphore_' = writeSemaphore_ + 1
    /\ pc' = [pc EXCEPT ![t] = "idle"]
    /\ ret' = [ret EXCEPT ![t] = TRUE]
    /\ UNCHANGED <<blocks_, writeIndex_, readIndex_, readSemaphore_, lock_>>
    /\ UNCHANGED <<op, arg, written, out, collection, buf, size, budget, history>>

\* --------------------------------------------------------------- is_empty
\* return writeIndex_ == readIndex_
IsEmpty == writeIndex_ = readIndex_

\* is_empty(): entry
CallIsEmpty(t) ==
    /\ pc[t] = "idle" /\ budget > 0
    /\ budget' = budget - 1
    /\ pc' = [pc EXCEPT ![t] = "e_lock"]
    /\ op' = [op EXCEPT ![t] = "is_empty"]
    /\ ret' = [ret EXCEPT ![t] = NoRet]
    /\ UNCHANGED <<shared, history, arg, written, out, collection, buf, size>>

\* std::lock_guard lock {lock_}
IsEmptyLock(t) ==
    /\ pc[t] = "e_lock"
    /\ lock_ = NoThread
    /\ lock_' = t
    /\ pc' = [pc EXCEPT ![t] = "e_cs"]
    /\ UNCHANGED <<blocks_, writeIndex_, readIndex_, writeSemaphore_, readSemaphore_>>
    /\ UNCHANGED <<op, arg, written, out, collection, buf, size, ret, budget, history>>

\* The comparison under the mutex, the unlock and the return
IsEmptyReturn(t) ==
    /\ pc[t] = "e_cs"
    /\ lock_ = t
    /\ lock_' = NoThread
    /\ pc' = [pc EXCEPT ![t] = "idle"]
    /\ ret' = [ret EXCEPT ![t] = IsEmpty]
    /\ UNCHANGED <<blocks_, writeIndex_, readIndex_, writeSemaphore_, readSemaphore_>>
    /\ UNCHANGED <<op, arg, written, out, collection, buf, size, budget, history>>

\* ------------------------------------------------------------ specifications
ProducerStep(t, blks, colls) ==
    \/ \E b \in blks : CallWriteBlock(t, b)
    \/ \E c \in colls : CallWriteCollection(t, c)
    \/ WriteAcquire(t)
    \/ WriteLock(t)
    \/ WriteStore(t)
    \/ WriteRelease(t)

ConsumerStep(t, sizes) ==
    \/ \E o \in BlockReads \cup CollectionReads : CallRead(t, o, 0)
    \/ \E o \in ByteReads, n \in sizes : CallRead(t, o, n)
    \/ ReadAcquire(t)
    \/ ReadTimeout(t)
    \/ ReadLock(t)
    \/ ReadEmpty(t)
    \/ ReadBlockCopy(t)
    \/ ReadCollectionCopy(t)
    \/ ReadBytesCopy(t)
    \/ ReadRelease(t)
    \/ CallIsEmpty(t)
    \/ IsEmptyLock(t)
    \/ IsEmptyReturn(t)

\* Any number of producers and consumers: two of each, writing full blocks
\* and over-long collections
Next ==
    \/ \E t \in Producers :
          ProducerStep(t, BlockInputs({BlockSize}), CollectionInputs({BlockSize + 1}))
    \/ \E t \in Consumers : ConsumerStep(t, {BlockSize})

Spec == Init /\ [][Next]_vars

\* One producer and one consumer, making more calls, with a short collection
\* among the inputs
InitSPSC == InitShared /\ InitLocals /\ InitHistory /\ budget = MaxCallsSPSC

NextSPSC ==
    \/ ProducerStep("p1", BlockInputs({BlockSize}), CollectionInputs({1, BlockSize + 1}))
    \/ ConsumerStep("c1", {BlockSize})

SpecSPSC == InitSPSC /\ [][NextSPSC]_vars

\* One producer and one consumer, making few calls on every input
InitData == InitShared /\ InitLocals /\ InitHistory /\ budget = MaxCallsData

NextData ==
    \/ ProducerStep("p1", BlockInputs(AllSizes), CollectionInputs(AllSizes))
    \/ ConsumerStep("c1", 0..BufLen)

SpecData == InitData /\ [][NextData]_vars

\* The producer loop and the consumer loop of testRingBuffer: the producer
\* writes, the consumer calls the blocking read(block)
LoopThreads == {"p1", "c1"}

LoopConsumerStep(t) ==
    \/ CallRead(t, "read", 0)
    \/ ReadAcquire(t)
    \/ ReadLock(t)
    \/ ReadEmpty(t)
    \/ ReadBlockCopy(t)
    \/ ReadRelease(t)

NextLoop ==
    \/ ProducerStep("p1", BlockInputs({BlockSize}), CollectionInputs({BlockSize}))
    \/ LoopConsumerStep("c1")

SpecLoop == InitSPSC /\ [][NextLoop]_vars

\* Any number of producers calling write(block) and of consumers calling
\* read(block) and read_for(block), and no other operation
InitBlocks == InitShared /\ InitLocals /\ InitHistory /\ budget = MaxCallsBlocks

BlockProducerStep(t) ==
    \/ \E b \in BlockInputs({1, BlockSize}) : CallWriteBlock(t, b)
    \/ WriteAcquire(t)
    \/ WriteLock(t)
    \/ WriteStore(t)
    \/ WriteRelease(t)

BlockConsumerStep(t) ==
    \/ \E o \in BlockReads : CallRead(t, o, 0)
    \/ ReadAcquire(t)
    \/ ReadTimeout(t)
    \/ ReadLock(t)
    \/ ReadEmpty(t)
    \/ ReadBlockCopy(t)
    \/ ReadRelease(t)

NextBlocks ==
    \/ \E t \in Producers : BlockProducerStep(t)
    \/ \E t \in Consumers : BlockConsumerStep(t)

SpecBlocks == InitBlocks /\ [][NextBlocks]_vars


\* -------------------------------------------------------------- properties
\* No thread is inside a write or a read
Quiescent == \A t \in Threads : pc[t] = "idle"

\* A write leaves its critical section, a read leaves its critical section
\* having found data
Stores(t) == pc[t] = "w_cs" /\ pc'[t] = "w_release"
ReadsSlot(t) == pc[t] = "r_cs" /\ pc'[t] = "r_release"

\* Every slot holds written data that no read has returned yet
BufferFull == \A i \in Slots : unread[i]

\* A producer waits in writeSemaphore_.acquire()
WriterBlocked == \E p \in Producers : pc[p] = "w_acquire" /\ writeSemaphore_ = 0

\* No producer is inside a write
NoWriter == \A p \in Producers : pc[p] = "idle"

\* The slot written longest ago among those not read yet
OldestUnread ==
    CHOOSE i \in Slots : unread[i] /\ \A j \in Slots : unread[j] => tag[i] <= tag[j]

\* Writes stored and not yet returned by a read
Outstanding == wcount - Len(rlog)

\* C1: at every quiescent point the count of the write-admission semaphore
\* plus the count of the read-availability semaphore equals Blocks.
C1_SemaphoreSum ==
    Quiescent => writeSemaphore_ + readSemaphore_ = Blocks

\* C2: when every slot is filled and a producer is blocked in write, a
\* read(block) that reaches its critical section returns true with the oldest
\* written block (and so lets the blocked write go on).
C2_ReadOfFullBuffer ==
    [][\A t \in Consumers :
          (pc[t] = "r_cs" /\ op[t] = "read" /\ BufferFull /\ WriterBlocked
              /\ pc'[t] # pc[t])
          => (pc'[t] = "r_release" /\ out'[t] = blocks_[OldestUnread])]_vars

\* C3: backpressure: the writes stored exceed the reads that found data by at
\* most Blocks, no write stores while every slot holds unread data, and no
\* write stores into a slot whose data has not been read.
C3_Backpressure ==
    [][/\ Outstanding <= Blocks
       /\ \A t \in Producers :
             Stores(t) => (~BufferFull /\ ~unread[writeIndex_])]_vars

\* C4: with one producer and one consumer, the successful reads return the
\* written blocks in the order written, none skipped and none repeated: the
\* k-th successful read returns the k-th write.
C4_FIFO ==
    \A k \in 1..Len(rlog) : rlog[k] = k

\* C5: round trip: a read(block) that runs while the block of a write(block)
\* waits unread at the read cursor, with at most Blocks writes outstanding,
\* returns true and leaves in `out` the count and the elements written.
C5_RoundTrip ==
    [][\A t \in Consumers :
          (pc[t] = "r_cs" /\ op[t] = "read" /\ pc'[t] # pc[t]
              /\ Outstanding \in 1..Blocks
              /\ unread[readIndex_] /\ origin[readIndex_].kind = "write_block")
          => (pc'[t] = "r_release" /\ out'[t] = origin[readIndex_].src)]_vars

\* C6: write(collection) returns n = min(BlockSize, length), the slot it
\* stored into holds count n and the first n source elements, and a block read
\* back from a collection longer than BlockSize has count BlockSize and the
\* first BlockSize source elements.
C6_WriteCollection ==
    /\ \A i \in Slots :
          (tag[i] > 0 /\ origin[i].kind = "write_coll") =>
              LET c == origin[i].src
                  n == IF Len(c) < BlockSize THEN Len(c) ELSE BlockSize
              IN /\ blocks_[i].size_ = n
                 /\ \A j \in 1..n : blocks_[i].data_[j] = c[j]
    /\ \A t \in Producers :
          (pc[t] = "idle" /\ op[t] = "write_coll") =>
              ret[t] = (IF Len(arg[t]) < BlockSize THEN Len(arg[t]) ELSE BlockSize)
    /\ \A t \in Consumers :
          (pc[t] = "idle" /\ op[t] \in BlockReads /\ ret[t] = TRUE
              /\ got[t].origin.kind = "write_coll"
              /\ Len(got[t].origin.src) > BlockSize)
          => /\ out[t].size_ = BlockSize
             /\ \A j \in 1..BlockSize : out[t].data_[j] = got[t].origin.src[j]

\* A collection longer than a slot was written, truncated, and read back
C6_Witness ==
    \E t \in Consumers :
        /\ pc[t] = "idle" /\ op[t] \in BlockReads /\ ret[t] = TRUE
        /\ got[t].origin.kind = "write_coll"
        /\ Len(got[t].origin.src) > BlockSize
        /\ \E p \in Producers : pc[p] = "idle" /\ ret[p] = BlockSize

C8_CursorsAdvance ==
    [][/\ writeIndex_ \in Slots /\ readIndex_ \in Slots
       /\ \A t \in Producers :
             Stores(t) => writeIndex_' = (writeIndex_ + 1) % Blocks
       /\ \A t \in Consumers :
             ReadsSlot(t) => readIndex_' = (readIndex_ + 1) % Blocks]_vars

\* C9: at every quiescent point the filled slots are the run from readIndex_
\* to just before writeIndex_, as long as the read-availability count:
\* (writeIndex_ - readIndex_) mod Blocks = count mod Blocks, and exactly
\* those slots hold unread data.
C9_ContiguousRun ==
    Quiescent =>
        /\ (writeIndex_ - readIndex_) % Blocks = readSemaphore_ % Blocks
        /\ \A i \in Slots :
              unread[i] <=> ((i - readIndex_) % Blocks < readSemaphore_)

\* C10: a successful read(collection) or read_for(collection, ..) appends to
\* the caller's collection exactly the size_ leading elements of the slot at
\* the read cursor, in order.
C10_CollectionAppend ==
    [][\A t \in Consumers :
          (ReadsSlot(t) /\ op[t] \in CollectionReads
              /\ blocks_[readIndex_].size_ <= BlockSize)
          => collection'[t] =
                collection[t] \o
                    [j \in 1..blocks_[readIndex_].size_ |-> blocks_[readIndex_].data_[j]]]_vars

\* C11: a successful read_bytes or read_bytes_for copies the
\* min(size, slot count) leading elements of the slot at the read cursor into
\* the caller's buffer, leaves the rest of the buffer alone and sets size to
\* that number; a call that returns false leaves size and the buffer unchanged.
C11_ReadBytes ==
    [][\A t \in Consumers :
          op[t] \in ByteReads =>
            /\ ReadsSlot(t) =>
                  LET slot == blocks_[readIndex_]
                      n == IF size[t] < slot.size_ THEN size[t] ELSE slot.size_
                  IN /\ size'[t] = n
                     /\ \A i \in 1..n : i <= BlockSize /\ buf'[t][i] = slot.data_[i]
                     /\ \A i \in (n + 1)..BufLen : buf'[t][i] = buf[t][i]
            /\ (pc[t] \in {"r_acquire", "r_cs"} /\ pc'[t] = "idle") =>
                  (size'[t] = size[t] /\ buf'[t] = buf[t])]_vars

\* The number of slots holding written data that no read has returned yet
FillLevel == Cardinality({i \in Slots : unread[i]})

\* C12: is_empty() returns true exactly when writeIndex_ == readIndex_, which
\* is when the buffer holds no filled slot or Blocks filled slots; it returns
\* false for every fill level strictly between 0 and Blocks.
C12_IsEmpty ==
    [][\A t \in Consumers :
          (pc[t] = "e_cs" /\ pc'[t] = "idle") =>
             /\ ret'[t] = (writeIndex_ = readIndex_)
             /\ ret'[t] = (FillLevel \in {0, Blocks})]_vars

\* C13: every slot that has been written holds a size_ of at most BlockSize,
\* whichever write overload stored it.
C13_SlotSizeBounded ==
    \A i \in Slots : tag[i] > 0 => blocks_[i].size_ <= BlockSize

\* C14: a reader that has decremented the read semaphore and holds the mutex
\* never finds readIndex_ == writeIndex_, so that no read which passed the
\* semaphore returns false.
C14_RecheckUnreachable ==
    \A t \in Consumers :
        (pc[t] = "r_cs" /\ lock_ = t) => readIndex_ # writeIndex_

\* C15: a read that passed the read semaphore and finds readIndex_ ==
\* writeIndex_ under the mutex returns false and leaves both cursors, its
\* output argument and the write-admission count unchanged; it took exactly one
\* unit of the read-availability count when it passed the semaphore and gives
\* none back on the way out, so its own effect on that count is -1.
C15_FailedRecheck ==
    [][\A t \in Consumers :
          /\ (pc[t] = "r_acquire" /\ pc'[t] = "r_lock")
                => readSemaphore_' = readSemaphore_ - 1
          /\ (pc[t] = "r_lock" /\ pc'[t] # pc[t])
                => readSemaphore_' = readSemaphore_
          /\ (pc[t] = "r_cs" /\ readIndex_ = writeIndex_ /\ pc'[t] # pc[t])
                => /\ pc'[t] = "idle" /\ ret'[t] = FALSE
                   /\ UNCHANGED <<writeIndex_, readIndex_, writeSemaphore_,
                                  readSemaphore_, blocks_>>
                   /\ out'[t] = out[t] /\ collection'[t] = collection[t]
                   /\ buf'[t] = buf[t] /\ size'[t] = size[t]]_vars

\* A blocking read of a full buffer returned false; with every call finished,
\* the read-availability count is one below the Blocks units the writes gave
C15_Witness ==
    /\ Quiescent
    /\ wcount = Blocks /\ rlog = <<>>
    /\ \E t \in Consumers : op[t] = "read" /\ ret[t] = FALSE /\ out[t] = EmptyBlock
    /\ readSemaphore_ = Blocks - 1 /\ writeSemaphore_ = 0

\* The steps a write and a read go through, in order
WriteOrder ==
    {<<"idle", "w_acquire">>, <<"w_acquire", "w_lock">>, <<"w_lock", "w_cs">>,
     <<"w_cs", "w_release">>, <<"w_release", "idle">>}

ReadOrder ==
    {<<"idle", "r_acquire">>, <<"r_acquire", "r_lock">>, <<"r_lock", "r_cs">>,
     <<"r_cs", "r_release">>, <<"r_release", "idle">>,
     <<"r_acquire", "idle">>, <<"r_cs", "idle">>,
     <<"idle", "e_lock">>, <<"e_lock", "e_cs">>, <<"e_cs", "idle">>}

\* C16: every write and read decrements its own semaphore, then acquires the
\* mutex, updates under it, releases it, and only then increments the other
\* semaphore; a thread waiting on a semaphore never holds the mutex, and a
\* thread incrementing the other semaphore no longer holds it.
C16_LockOrder ==
    [][/\ \A t \in Threads :
             /\ pc[t] \in {"w_acquire", "r_acquire", "w_release", "r_release"}
                   => lock_ # t
             /\ pc[t] \in {"w_cs", "r_cs"} => lock_ = t
       /\ \A t \in Producers : pc'[t] # pc[t] =>
             /\ <<pc[t], pc'[t]>> \in WriteOrder
             /\ writeSemaphore_' =
                   writeSemaphore_ - (IF pc[t] = "w_acquire" THEN 1 ELSE 0)
             /\ readSemaphore_' =
                   readSemaphore_ + (IF pc[t] = "w_release" THEN 1 ELSE 0)
             /\ pc[t] # "w_cs" => UNCHANGED <<blocks_, writeIndex_, readIndex_>>
             /\ pc[t] = "w_lock" => lock_ = NoThread /\ lock_' = t
             /\ pc[t] = "w_cs" => lock_' = NoThread
             /\ pc[t] \in {"w_acquire", "w_release"} => lock_' = lock_
       /\ \A t \in Consumers : pc'[t] # pc[t] =>
             /\ <<pc[t], pc'[t]>> \in ReadOrder
             /\ readSemaphore_' =
                   readSemaphore_
                     - (IF pc[t] = "r_acquire" /\ pc'[t] = "r_lock" THEN 1 ELSE 0)
             /\ writeSemaphore_' =
                   writeSemaphore_ + (IF pc[t] = "r_release" THEN 1 ELSE 0)
             /\ pc[t] # "r_cs" => UNCHANGED <<blocks_, writeIndex_, readIndex_>>
             /\ pc[t] = "r_lock" => lock_ = NoThread /\ lock_' = t
             /\ pc[t] = "r_cs" => lock_' = NoThread
             /\ pc[t] \in {"r_acquire", "r_release"} => lock_' = lock_]_vars

\* A producer is about to increment the read semaphore while another thread
\* holds the mutex, and a consumer waits on the read semaphore at count 0
C16_Witness ==
    \E p \in Producers, c \in Consumers :
        /\ pc[p] = "w_release"
        /\ lock_ \in Threads \ {p, c}
        /\ pc[c] = "r_acquire" /\ readSemaphore_ = 0

\* C17: with a producer that keeps calling write and a consumer that keeps
\* calling the blocking read(block), the system never reaches a state in which
\* both semaphore counts are zero and every thread is blocked on a semaphore
\* (so that every write eventually returns).
C17_NoDeadlock ==
    ~ /\ writeSemaphore_ = 0 /\ readSemaphore_ = 0
      /\ \A t \in LoopThreads : pc[t] \in {"w_acquire", "r_acquire"}

\* C18: with any number of producers calling write(block) and consumers
\* calling read(block) / read_for(block): no write stores over a block that no
\* read has returned, every successful read returns, whole, a block that some
\* write stored and that no read returned before, and so no written block is
\* returned twice.
C18_ExactlyOnce ==
    [][/\ \A k \in 1..Len(rlog) : rlog[k] \in 1..wcount
       /\ \A j, k \in 1..Len(rlog) : j # k => rlog[j] # rlog[k]
       /\ \A t \in Producers : Stores(t) => ~unread[writeIndex_]
       /\ \A t \in Consumers :
             ReadsSlot(t) =>
                /\ unread[readIndex_]
                /\ \A k \in 1..Len(rlog) : rlog[k] # tag[readIndex_]
                /\ out'[t] = origin[readIndex_].src]_vars

\* Both consumers have been returned a block, of different writes, and a slot
\* has been written a second time
C18_Witness ==
    /\ Quiescent
    /\ wcount > Blocks
    /\ got["c1"].tag > 0 /\ got["c2"].tag > 0
    /\ out["c1"] # out["c2"]

\* C19: neither semaphore's count ever exceeds Blocks, the maximum of
\* std::counting_semaphore<Blocks>.
C19_SemaphoreBound ==
    /\ writeSemaphore_ <= Blocks
    /\ readSemaphore_ <= Blocks

\* Reads have released the write semaphore back up to Blocks, after as many
\* writes had taken it down
C19_Witness ==
    /\ Quiescent
    /\ wcount = Blocks /\ Len(rlog) = Blocks
    /\ writeSemaphore_ = Blocks

\* C20: frame: no step of a read of any variant or of is_empty changes
\* writeIndex_ or the contents of any slot; no step of a write of either
\* overload changes readIndex_ or any slot other than the one at the write
\* cursor.
C20_Frame ==
    [][/\ \A t \in Consumers :
             pc'[t] # pc[t] => (writeIndex_' = writeIndex_ /\ blocks_' = blocks_)
       /\ \A t \in Producers :
             pc'[t] # pc[t] =>
                /\ readIndex_' = readIndex_
                /\ \A i \in Slots \ {writeIndex_} : blocks_'[i] = blocks_[i]]_vars

\* A write has stored into the second slot while the first held a block, a
\* read has returned a block, and is_empty has been called
C20_Witness ==
    /\ Quiescent
    /\ wcount >= 2 /\ Len(rlog) >= 1
    /\ \E t \in Consumers : op[t] = "is_empty"
    /\ \E t \in Consumers : op[t] \in ReadOps /\ got[t].tag > 0

====
